---- MODULE Spec2Model ----
(***************************************************************************)
(* The two MCP servers of couchbase-mcp (monsters, starwars): the CallTool *)
(* handler, the entity resolver (getMonster / getCharacter), the           *)
(* similarity orchestrator (findSimilarMonsters / findSimilarCharacters)   *)
(* and the shared lazily-initialised connection handle `cluster`.          *)
(*                                                                         *)
(* Every tool call is an async function: it runs atomically between two    *)
(* awaits of a datastore call (connect, point-read, search, hydration      *)
(* read, close), so there is one action per completion of such a call.     *)
(* Strings are sequences of one-character strings.                         *)
(***************************************************************************)
EXTENDS Integers, Sequences, FiniteSets, TLC

\* Number of tool calls that may be in flight together.
NReq == 2

\* Number of tool calls of the end-to-end scenario.
NReqE2E == 1

\* Number of tool calls where the course of a single call is checked.
NReqLive == 1

\* Longest name that is canonicalized.
MaxNameLen == 2

Req == 1..NReq

\* const numResults = 5 (the candidate count and the slice(0, 5) cut).
numResults == 5

Servers == {"monsters", "starwars"}

\* request.params.arguments?.name when the argument is missing.
Absent == <<"undefined">>

----------------------------------------------------------------------------
\* String helpers (String.prototype.toLowerCase / toUpperCase / charAt / slice)

toLowerCaseChar(ch) ==
    CASE ch = "A" -> "a"
      [] ch = "B" -> "b"
      [] OTHER -> ch

toUpperCaseChar(ch) ==
    CASE ch = "a" -> "A"
      [] ch = "b" -> "B"
      [] OTHER -> ch

toLowerCase(str) == [i \in 1..Len(str) |-> toLowerCaseChar(str[i])]

toUpperCase(str) == [i \in 1..Len(str) |-> toUpperCaseChar(str[i])]

\* str.charAt(0): the empty string when str is empty
charAt0(str) == IF Len(str) = 0 THEN <<>> ELSE <<str[1]>>

\* str.slice(1)
slice1(str) == IF Len(str) = 0 THEN <<>> ELSE SubSeq(str, 2, Len(str))

\* str.charAt(0).toUpperCase() + str.slice(1), the rest left as given
capitalizeFirstLetterKeepRest(str) == toUpperCase(charAt0(str)) \o slice1(str)

capitalizeFirstLetter(str) == toUpperCase(charAt0(str)) \o toLowerCase(slice1(str))

\* `monster::${name.toLowerCase()}`
MonsterDocId(name) == <<"monster::">> \o toLowerCase(name)

\* The document key the resolver of server srv looks up for name
DocId(srv, name) ==
    IF srv = "monsters" THEN MonsterDocId(name) ELSE capitalizeFirstLetter(name)

\* `!name` of the fetch handler and of the resolver: undefined and "" are falsy
NameMissingEmptyIsPresent(arg) == arg = Absent

NameMissing(arg) == arg = Absent \/ arg = <<>>

\* `typeof name !== 'string'` of the find handler
NotAString(arg) == arg = Absent

----------------------------------------------------------------------------
\* The datastore: documents by key, and the vector index over `embedding`

N1 == <<"a", "b">>
N2 == <<"b", "a">>
N3 == <<"b", "b">>
N4 == <<"a", "a">>
N5 == <<"a">>

MkDoc(srv, name, hasEmb, emb) ==
    [id |-> DocId(srv, name), hasEmb |-> hasEmb, emb |-> emb]

\* One entity with an embedding and one without
SmallStore(srv) ==
    { MkDoc(srv, N1, TRUE, 1), MkDoc(srv, N3, FALSE, 0) }

\* The end-to-end scenario: a source entity and four others, all with embeddings
E2EStore(srv) ==
    { MkDoc(srv, N1, TRUE, 1), MkDoc(srv, N2, TRUE, 2), MkDoc(srv, N3, TRUE, 4),
      MkDoc(srv, N4, TRUE, 8), MkDoc(srv, N5, TRUE, 16) }

\* The index holds the vector of every document that has one
IndexOf(st) == { [id |-> d.id, emb |-> d.emb] : d \in { e \in st : e.hasEmb } }

\* A stale index entry: its document has been deleted from the collection
Ghost(srv) == [id |-> DocId(srv, N4), emb |-> 4]

\* The index is built out of band: complete with a stale entry left, or empty
SmallIndexes(srv) ==
    { IndexOf(SmallStore(srv)) \cup {Ghost(srv)}, {} }

\* The name arguments a client sends: none, "", "aB", "bb", "b"
Args == { Absent, <<>>, <<"a", "B">>, N3, <<"b">> }

Tools == {"fetch", "find"}

HasDoc(st, id) == \E d \in st : d.id = id

GetDoc(st, id) == CHOOSE d \in st : d.id = id

NoDoc == [id |-> <<>>, hasEmb |-> FALSE, emb |-> 0]

Abs(n) == IF n < 0 THEN 0 - n ELSE n

\* The similarity score of an index entry for query vector q: higher is nearer
Score(q, e) == 0 - Abs(q - e.emb)

Nearer(q, e, f) ==
    \/ Score(q, e) > Score(q, f)
    \/ Score(q, e) = Score(q, f) /\ e.emb <= f.emb

RECURSIVE TopK(_, _, _)
\* The k nearest entries of the index, best first, as rows (id, score)
TopK(idx, q, k) ==
    IF k = 0 \/ idx = {} THEN <<>>
    ELSE LET best == CHOOSE e \in idx : \A f \in idx : Nearer(q, e, f)
         IN  <<[id |-> best.id, score |-> Score(q, best)]>>
             \o TopK(idx \ {best}, q, k - 1)

\* scope.search(index, VectorQuery.create('embedding', q).numCandidates(numResults))
VectorSearch(idx, q) == TopK(idx, q, numResults)

----------------------------------------------------------------------------
VARIABLES
    server,    \* which of the two servers this process is
    store,     \* the collection: a set of documents
    index,     \* the vector index: a set of (id, emb) entries
    clients,   \* the request slots that clients use
    names,     \* the name arguments that clients send
    cluster,   \* the shared handle: 0 is null, else a connection id
    conns,     \* conns[k]: "open" or "closed", for every connection opened
    pc,        \* where each tool call is suspended
    req,       \* the tool and name argument of each call
    loc,       \* the locals of each call
    outcome,   \* what left the CallTool handler
    canon      \* a name of the dataset and a spelling of it in other letter case

vars == <<server, store, index, clients, names, cluster, conns, pc, req, loc, outcome, canon>>

env == <<server, store, index, clients, names, canon>>

\* A slot of Promise.all that has not settled
PendingSlot == [val |-> "pending", id |-> <<>>, score |-> 0]

\* The null a failed hydration read maps to
NullSlot == [val |-> "null", id |-> <<>>, score |-> 0]

NoOutcome == [how |-> "none", isError |-> FALSE, text |-> "", list |-> <<>>]

\* { content: [{type: "text", text}], isError: true }
ErrorPayload(text) == [how |-> "payload", isError |-> TRUE, text |-> text, list |-> <<>>]

\* { content: [{type: "text", text: JSON.stringify(entity)}], isError: false }
EntityPayload(doc) == [how |-> "payload", isError |-> FALSE, text |-> "entity", list |-> <<doc>>]

\* { content: [{type: "text", text: JSON.stringify(list)}], isError: false }
ListPayload(list) == [how |-> "payload", isError |-> FALSE, text |-> "list", list |-> list]

\* an Error that leaves the handler: the returned promise rejects
Thrown(text) == [how |-> "thrown", isError |-> TRUE, text |-> text, list |-> <<>>]

InitLoc ==
    [ c       |-> 0,         \* the connection the outstanding call runs on
      ret     |-> "none",    \* what follows initCouchbase: resolve, search, hydrate
      getRes  |-> "none",    \* how the point-read of the resolve step ended
      doc     |-> NoDoc,     \* the resolved entity
      search  |-> "none",    \* how the search ended: rows, error, timeout
      rows    |-> <<>>,      \* result.rows
      reads   |-> <<>>,      \* how each hydration read ended: pending, ok, failed
      docs    |-> <<>>,      \* the slots of Promise.all over rows.slice(0, 5)
      closing |-> 0,         \* the connection whose close() is awaited
      result  |-> NoOutcome, \* what is returned or thrown once close() resolves
      issued  |-> {} ]       \* the kinds of datastore calls this call has issued

\* No name and spelling of it are singled out
NoCanon == [name |-> <<>>, other |-> <<>>]

InitCommon ==
    /\ server \in Servers
    /\ canon = NoCanon
    /\ cluster = 0
    /\ conns = <<>>
    /\ pc = [r \in Req |-> "idle"]
    /\ req = [r \in Req |-> [tool |-> "fetch", arg |-> Absent]]
    /\ loc = [r \in Req |-> InitLoc]
    /\ outcome = [r \in Req |-> NoOutcome]

Init ==
    /\ InitCommon
    /\ store = SmallStore(server)
    /\ index \in SmallIndexes(server)
    /\ clients = Req
    /\ names = Args

\* The end-to-end scenario of the specification
InitE2E ==
    /\ InitCommon
    /\ store = E2EStore(server)
    /\ index = IndexOf(store)
    /\ clients = 1..NReqE2E
    /\ names = {<<"a", "B">>}

----------------------------------------------------------------------------
\* Message texts

TxtRequired == "name is required"

TxtMustBeString == "name must be a string"

\* `Monster "${name}" not found` of the fetch handler
TxtNotFound == "\"name\" not found"

\* `Monster not found: ${name}` thrown by findSimilar
TxtNotFoundThrown == "not found: name"

TxtNoEmbedding == "No embedding found for name"

TxtSearchTimeout == "Search timeout"

\* the message of an error the SDK raises for a failed or timed-out call
TxtDatastore == "datastore error"

\* the message of the error a failed couchbase.connect raises
TxtConnect == "connect error"

\* the message of the error a failed cluster.close() raises
TxtClose == "close error"

\* `Vector search failed: ${err.message}`
VectorSearchFailed(msg) ==
    CASE msg = TxtSearchTimeout -> "Vector search failed: Search timeout"
      [] msg = TxtDatastore -> "Vector search failed: datastore error"
      [] msg = TxtConnect -> "Vector search failed: connect error"
      [] msg = TxtClose -> "Vector search failed: close error"

----------------------------------------------------------------------------
\* Steps of an async function

\* the call is suspended at an await
Suspend(r, l, p) ==
    /\ pc' = [pc EXCEPT ![r] = p]
    /\ loc' = [loc EXCEPT ![r] = l]
    /\ UNCHANGED outcome

\* the handler returns out, or its promise rejects with out; the connection
\* references of the call go out of scope
Done(r, l, out) ==
    /\ pc' = [pc EXCEPT ![r] = "done"]
    /\ loc' = [loc EXCEPT ![r] = [l EXCEPT !.c = 0, !.closing = 0]]
    /\ outcome' = [outcome EXCEPT ![r] = out]

\* rows.slice(0, 5)
sliceEnd == 5

Min(a, b) == IF a < b THEN a ELSE b

PcOfCall(ret) ==
    CASE ret = "resolve" -> "get"
      [] ret = "search" -> "search"
      [] ret = "hydrate" -> "hydrate"

\* The datastore call that follows initCouchbase(), issued on connection k:
\* collection.get(docId), scope.search(...), or one collection.get per row
IssueCall(l, ret, k) ==
    CASE ret = "resolve" ->
           [l EXCEPT !.c = k, !.ret = "none", !.issued = @ \cup {"get"}]
      [] ret = "search" ->
           [l EXCEPT !.c = k, !.ret = "none", !.issued = @ \cup {"search"}]
      [] ret = "hydrate" ->
           [l EXCEPT !.c = k, !.ret = "none", !.issued = @ \cup {"hydrate"},
                     !.reads = [i \in 1..Min(Len(l.rows), sliceEnd) |-> "pending"],
                     !.docs = [i \in 1..Min(Len(l.rows), sliceEnd) |-> PendingSlot]]

\* initCouchbase: if (!cluster) { cluster = await couchbase.connect(...) } return cluster
InitCouchbase(r, l, ret) ==
    IF cluster = 0
    THEN Suspend(r, [l EXCEPT !.ret = ret, !.issued = @ \cup {"connect"}], "connect")
    ELSE Suspend(r, IssueCall(l, ret, cluster), PcOfCall(ret))

\* what the catch block of findSimilar throws
CatchOutcome(msg) == Thrown(VectorSearchFailed(msg))

\* The catch block of findSimilar. starwars closes the shared connection first:
\* if (cluster) { await cluster.close(); cluster = null }
CatchBlock(r, l, msg) ==
    IF server = "starwars" /\ cluster # 0
    THEN /\ conns' = [conns EXCEPT ![cluster] = "closed"]
         /\ Suspend(r, [l EXCEPT !.closing = cluster, !.result = CatchOutcome(msg)], "closing")
    ELSE /\ UNCHANGED conns
         /\ Done(r, l, CatchOutcome(msg))

\* getMonster / getCharacter up to its first await
Resolve(r, arg) ==
    IF NameMissing(arg)
    THEN Done(r, loc[r], Thrown(TxtRequired))
    ELSE InitCouchbase(r, loc[r], "resolve")

\* The CallTool handler receives a request. Calls are interchangeable, so
\* the slots are taken in order.
Start(r, tool, arg) ==
    /\ pc[r] = "idle"
    /\ r \in clients
    /\ arg \in names
    /\ \A q \in 1..(r - 1) : pc[q] # "idle"
    /\ req' = [req EXCEPT ![r] = [tool |-> tool, arg |-> arg]]
    /\ IF tool = "fetch" /\ NameMissing(arg)
       THEN Done(r, loc[r], ErrorPayload(TxtRequired))
       ELSE IF tool = "find" /\ NotAString(arg)
       THEN Done(r, loc[r], ErrorPayload(TxtMustBeString))
       ELSE Resolve(r, arg)
    /\ UNCHANGED <<env, cluster, conns>>

\* couchbase.connect settles
ConnectDone(r, ok) ==
    /\ pc[r] = "connect"
    /\ IF ok
       THEN /\ conns' = Append(conns, "open")
            /\ cluster' = Len(conns) + 1
            /\ Suspend(r, IssueCall(loc[r], loc[r].ret, Len(conns) + 1), PcOfCall(loc[r].ret))
       ELSE /\ UNCHANGED cluster
            /\ IF loc[r].ret = "hydrate"
               THEN CatchBlock(r, [loc[r] EXCEPT !.ret = "none"], TxtConnect)
               ELSE /\ UNCHANGED conns
                    /\ Done(r, [loc[r] EXCEPT !.ret = "none"], Thrown(TxtConnect))
    /\ UNCHANGED <<env, req>>

\* How the point-read of key id on connection k can end: a closed connection
\* answers nothing; an open one answers or fails. "unavailable" is every error
\* the SDK raises: unreachable datastore, timeout, closed connection
GetResults(k, id) ==
    IF conns[k] = "closed"
    THEN {"unavailable"}
    ELSE {IF HasDoc(store, id) THEN "found" ELSE "notfound", "unavailable"}

\* How a hydration read can end: as a point-read, or cut off by its timeout
HydrateResults(k, id) == GetResults(k, id) \cup {"timeout"}

\* try { return (await collection.get(docId)).content } catch (err) { return null }
ResolvedFound(res) == res = "found"

\* the rest of the fetch handler, once the resolver has returned
FetchReturnNoNullCheck(r, l) == Done(r, l, EntityPayload(l.doc))

FetchReturn(r, l) ==
    IF ~ResolvedFound(l.getRes)
    THEN Done(r, l, ErrorPayload(TxtNotFound))
    ELSE Done(r, l, EntityPayload(l.doc))

\* findSimilar from the return of the resolver to its next await
FindAfterResolveNoEmbeddingCheck(r, l) ==
    IF ~ResolvedFound(l.getRes)
    THEN Done(r, l, Thrown(TxtNotFoundThrown))
    ELSE InitCouchbase(r, l, "search")

FindAfterResolve(r, l) ==
    IF ~ResolvedFound(l.getRes)
    THEN Done(r, l, Thrown(TxtNotFoundThrown))
    ELSE IF ~l.doc.hasEmb
    THEN Done(r, l, Thrown(TxtNoEmbedding))
    ELSE InitCouchbase(r, l, "search")

\* collection.get(docId) of the resolver settles
GetDone(r, res) ==
    /\ pc[r] = "get"
    /\ res \in GetResults(loc[r].c, DocId(server, req[r].arg))
    /\ LET l == [loc[r] EXCEPT
                   !.getRes = res,
                   !.doc = IF res = "found"
                           THEN GetDoc(store, DocId(server, req[r].arg))
                           ELSE NoDoc]
       IN  IF req[r].tool = "fetch" THEN FetchReturn(r, l) ELSE FindAfterResolve(r, l)
    /\ UNCHANGED <<env, req, cluster, conns>>

\* How the race of scope.search against its timer can end
SearchResultsNoTimer(k) ==
    IF conns[k] = "closed" THEN {"error"} ELSE {"rows", "error"}

SearchResults(k) ==
    IF conns[k] = "closed" THEN {"error", "timeout"} ELSE {"rows", "error", "timeout"}

\* Promise.race([scope.search(...), timer]) settles
SearchDone(r, res) ==
    /\ pc[r] = "search"
    /\ res \in SearchResults(loc[r].c)
    /\ LET rows == IF res = "rows" THEN VectorSearch(index, loc[r].doc.emb) ELSE <<>>
           l == [loc[r] EXCEPT !.search = res, !.rows = rows]
       IN  IF res = "timeout" THEN CatchBlock(r, l, TxtSearchTimeout)
           ELSE IF res = "error" THEN CatchBlock(r, l, TxtDatastore)
           ELSE /\ UNCHANGED conns
                /\ IF Len(rows) = 0
                   THEN Done(r, l, ListPayload(<<>>))
                   ELSE InitCouchbase(r, l, "hydrate")
    /\ UNCHANGED <<env, req, cluster>>

\* The value one row's async callback resolves to: the projection with the
\* row's score and id, or null when the read threw
HydrateValue(res, row) ==
    IF res = "found"
    THEN [val |-> "obj", id |-> row.id, score |-> row.score]
    ELSE NullSlot

\* Promise.all keeps each value at the index of its promise
SettleInCompletionOrder(docs, i, v) ==
    LET p == CHOOSE q \in 1..Len(docs) :
                 /\ docs[q].val = "pending"
                 /\ \A o \in 1..(q - 1) : docs[o].val # "pending"
    IN  [docs EXCEPT ![p] = v]

Settle(docs, i, v) == [docs EXCEPT ![i] = v]

\* One hydration read, collection.get(row.id, {timeout, project}), settles
HydrateDone(r, i, res) ==
    /\ pc[r] = "hydrate"
    /\ i \in 1..Len(loc[r].reads)
    /\ loc[r].reads[i] = "pending"
    /\ res \in HydrateResults(loc[r].c, loc[r].rows[i].id)
    /\ Suspend(r, [loc[r] EXCEPT
                     !.reads[i] = IF res = "found" THEN "ok" ELSE "failed",
                     !.docs = Settle(@, i, HydrateValue(res, loc[r].rows[i]))],
               "hydrate")
    /\ UNCHANGED <<env, req, cluster, conns>>

\* docs.filter(doc => doc !== null)
FilterNotNull(docs) == SelectSeq(docs, LAMBDA d : d.val # "null")

\* Promise.all resolves: starwars closes the shared connection, then the
\* filtered list is returned
HydrateJoin(r) ==
    /\ pc[r] = "hydrate"
    /\ \A i \in 1..Len(loc[r].reads) : loc[r].reads[i] # "pending"
    /\ IF server = "starwars" /\ cluster # 0
       THEN /\ conns' = [conns EXCEPT ![cluster] = "closed"]
            /\ Suspend(r, [loc[r] EXCEPT !.closing = cluster,
                                         !.result = ListPayload(FilterNotNull(loc[r].docs))],
                       "closing")
       ELSE /\ UNCHANGED conns
            /\ Done(r, loc[r], ListPayload(FilterNotNull(loc[r].docs)))
    /\ UNCHANGED <<env, req, cluster>>

\* await cluster.close() settles. When it resolves: cluster = null, then the
\* return or the throw. When it rejects, cluster = null is skipped: the close
\* of the try block (the one before the list is returned) is caught by the
\* catch block, which closes again; the close of the catch block rejects the
\* call with the error of close() itself.
CloseDone(r, ok) ==
    /\ pc[r] = "closing"
    /\ IF ok
       THEN /\ cluster' = 0
            /\ UNCHANGED conns
            /\ Done(r, [loc[r] EXCEPT !.result = NoOutcome], loc[r].result)
       ELSE /\ UNCHANGED cluster
            /\ IF loc[r].result.how = "payload"
               THEN CatchBlock(r, [loc[r] EXCEPT !.closing = 0], TxtClose)
               ELSE /\ UNCHANGED conns
                    /\ Done(r, [loc[r] EXCEPT !.result = NoOutcome], Thrown(TxtClose))
    /\ UNCHANGED <<env, req>>

Next ==
    \/ \E r \in Req, tool \in Tools, arg \in Args : Start(r, tool, arg)
    \/ \E r \in Req, ok \in BOOLEAN : ConnectDone(r, ok)
    \/ \E r \in Req, res \in {"found", "notfound", "unavailable"} : GetDone(r, res)
    \/ \E r \in Req, res \in {"rows", "error", "timeout"} : SearchDone(r, res)
    \/ \E r \in Req, i \in 1..sliceEnd, res \in {"found", "notfound", "unavailable", "timeout"} :
           HydrateDone(r, i, res)
    \/ \E r \in Req : HydrateJoin(r)
    \/ \E r \in Req, ok \in BOOLEAN : CloseDone(r, ok)

\* Concurrent tool calls against the small collection
Spec == Init /\ [][Next]_vars

\* The end-to-end scenario
SpecE2E == InitE2E /\ [][Next]_vars

\* The small collection, for the course of a call from its start to its end
InitLive ==
    /\ InitCommon
    /\ store = SmallStore(server)
    /\ index \in SmallIndexes(server)
    /\ clients = 1..NReqLive
    /\ names = Args

\* A timer that is set fires (the search timer, the per-document timeout), a
\* continuation that is ready runs, and the datastore answers connect and
\* close. It need not answer a search or a read.
TimerOrAnswer ==
    \E r \in Req :
        \/ SearchDone(r, "timeout")
        \/ \E i \in 1..sliceEnd : HydrateDone(r, i, "timeout")
        \/ HydrateJoin(r)
        \/ \E ok \in BOOLEAN : ConnectDone(r, ok)
        \/ \E ok \in BOOLEAN : CloseDone(r, ok)

\* The event loop does not stop while a timer or an answer is due
Fairness == WF_vars(TimerOrAnswer)

\* Tool calls under a datastore that may leave searches and reads unanswered
SpecLive == InitLive /\ [][Next]_vars /\ Fairness

----------------------------------------------------------------------------
\* Canonical keys: the key the resolver derives from a name, and the key the
\* loader of the monsters stores a monster under

\* The characters names are made of: letters in both cases, and the blank
Alphabet == {"a", "A", "b", "B", " "}

NamesOfLen(n) == [1..n -> Alphabet]

\* The names a client may give: `!name` rejects the empty one
NonEmptyNames == UNION { NamesOfLen(n) : n \in 1..MaxNameLen }

\* The spellings of str that differ from it in letter case only
CaseVariants(str) ==
    { y \in NamesOfLen(Len(str)) :
        \A i \in 1..Len(str) :
            y[i] \in {str[i], toLowerCaseChar(str[i]), toUpperCaseChar(str[i])} }

\* \s of the regular expression
IsWhitespace(ch) == ch = " "

RECURSIVE skipWhitespace(_)
\* What is left of str after the run of whitespace it starts with
skipWhitespace(str) ==
    IF Len(str) > 0 /\ IsWhitespace(Head(str))
    THEN skipWhitespace(Tail(str))
    ELSE str

RECURSIVE replaceWhitespace(_)
\* name.replace(/\s+/g, '_'): every run of whitespace becomes one underscore
replaceWhitespace(str) ==
    IF Len(str) = 0 THEN <<>>
    ELSE IF IsWhitespace(Head(str))
         THEN <<"_">> \o replaceWhitespace(skipWhitespace(Tail(str)))
         ELSE <<Head(str)>> \o replaceWhitespace(Tail(str))

\* `monster::${monster.name.replace(/\s+/g, '_').toLowerCase()}`
LoaderDocId(name) == <<"monster::">> \o toLowerCase(replaceWhitespace(name))

\* A name of the dataset and a spelling of it are what the clients send, in
\* two calls; the planets are in the collection, the monsters are not loaded yet
InitCanon ==
    /\ server \in Servers
    /\ store = IF server = "monsters" THEN {} ELSE SmallStore(server)
    /\ index = {}
    /\ clients = {1, 2}
    /\ cluster = 0
    /\ conns = <<>>
    /\ pc = [r \in Req |-> "idle"]
    /\ req = [r \in Req |-> [tool |-> "fetch", arg |-> Absent]]
    /\ loc = [r \in Req |-> InitLoc]
    /\ outcome = [r \in Req |-> NoOutcome]
    /\ \E n \in NonEmptyNames : \E y \in CaseVariants(n) :
           /\ canon = [name |-> n, other |-> y]
           /\ names = {n, y}

\* The loader stores the monster under the key it derives from its name
saveMonstersToCouchbase ==
    /\ server = "monsters"
    /\ store = {}
    /\ store' = {[id |-> LoaderDocId(canon.name), hasEmb |-> TRUE, emb |-> 1]}
    /\ UNCHANGED <<server, index, clients, names, cluster, conns, pc, req, loc,
                   outcome, canon>>

\* The loader runs while fetch calls resolve the name and its spelling
NextCanon ==
    \/ saveMonstersToCouchbase
    \/ \E r \in Req, arg \in NonEmptyNames : Start(r, "fetch", arg)
    \/ \E r \in Req, ok \in BOOLEAN : ConnectDone(r, ok)
    \/ \E r \in Req, res \in {"found", "notfound", "unavailable"} : GetDone(r, res)

\* The keys of a name and of its spellings, and of the loader
SpecCanon == InitCanon /\ [][NextCanon]_vars

----------------------------------------------------------------------------
\* Vocabulary of the claims

\* The class of the specification's error taxonomy a message belongs to
ErrorClass(text) ==
    CASE text \in {TxtRequired, TxtMustBeString} -> "InvalidArgument"
      [] text \in {TxtNotFound, TxtNotFoundThrown} -> "NotFound"
      [] text = TxtNoEmbedding -> "MissingEmbedding"
      [] text = VectorSearchFailed(TxtSearchTimeout) -> "Timeout"
      [] text \in {TxtConnect, TxtClose, VectorSearchFailed(TxtDatastore),
                   VectorSearchFailed(TxtConnect),
                   VectorSearchFailed(TxtClose)} -> "Unavailable"
      [] OTHER -> "None"

Finished(r) == pc[r] = "done"

\* the call has a datastore call outstanding on connection k
HasOutstandingOn(q, k) ==
    /\ loc[q].c = k
    /\ \/ pc[q] \in {"get", "search"}
       \/ pc[q] = "hydrate" /\ \E i \in 1..Len(loc[q].reads) : loc[q].reads[i] = "pending"

\* the position of the search row with this id
RowIndex(rows, id) == CHOOSE p \in 1..Len(rows) : rows[p].id = id

\* the call went through Promise.all over the hydration reads
Hydrated(r) == Finished(r) /\ req[r].tool = "find" /\ Len(loc[r].reads) > 0

OkReads(r) == { i \in 1..Len(loc[r].reads) : loc[r].reads[i] = "ok" }

----------------------------------------------------------------------------
\* C1: every failure of a tool call leaves the CallTool handler as a
\* structured payload with isError = true and a text message; no failure
\* leaves the handler as a thrown exception.
C1_FailuresAreStructuredPayloads ==
    \A r \in Req :
        Finished(r) /\ outcome[r].isError => outcome[r].how = "payload"

\* C2: when the point-read of the resolve step fails for connectivity, the
\* fetch tool and the resolver report a failure that is not the NotFound outcome.
C2_UnavailableIsNotNotFound ==
    \A r \in Req :
        Finished(r) /\ loc[r].getRes = "unavailable"
            => ErrorClass(outcome[r].text) # "NotFound"

\* C3: at most one couchbase.connect is in flight at a time.
C3_AtMostOneConnectInFlight ==
    Cardinality({ r \in Req : pc[r] = "connect" }) <= 1

\* C4: the teardown of the shared connection (cluster.close()) is never
\* started while another call has a datastore call outstanding on it.
C4_TeardownNeverRaces ==
    [][ \A r \in Req :
            (pc[r] # "closing" /\ pc'[r] = "closing")
                => \A q \in Req \ {r} : ~HasOutstandingOn(q, loc'[r].closing) ]_vars

\* C5: a call with an empty or absent name ends at once with an
\* InvalidArgument failure and has issued no datastore call (no connect,
\* no point-read, no search, no hydration read).
C5_EmptyNameIsInvalidArgumentWithoutDatastoreCall ==
    \A r \in Req :
        pc[r] # "idle" /\ req[r].arg \in {Absent, <<>>}
            => /\ Finished(r)
               /\ outcome[r].isError
               /\ ErrorClass(outcome[r].text) = "InvalidArgument"
               /\ loc[r].issued = {}

\* C5 witness: the fetch tool has rejected the empty name
C5_Witness ==
    \E r \in Req :
        /\ Finished(r)
        /\ req[r].tool = "fetch"
        /\ req[r].arg = <<>>
        /\ outcome[r] = ErrorPayload(TxtRequired)
        /\ loc[r].issued = {}

\* C6: with the source entity and four others in the datastore, all with
\* embeddings, findSimilar returns at most 4 results and the source entity
\* is not among them.
C6_AnchorExcluded ==
    \A r \in Req :
        Finished(r) /\ req[r].tool = "find" /\ outcome[r].text = "list"
            => /\ Len(outcome[r].list) <= Cardinality(store) - 1
               /\ \A i \in 1..Len(outcome[r].list) :
                      outcome[r].list[i].id # DocId(server, req[r].arg)

\* C7: whenever the resolve step and the search step of findSimilar both
\* succeed, the call returns a result list.
C7_OnlyResolveOrSearchFails ==
    \A r \in Req :
        /\ Finished(r)
        /\ req[r].tool = "find"
        /\ loc[r].getRes = "found"
        /\ loc[r].doc.hasEmb
        /\ loc[r].search = "rows"
        => outcome[r].how = "payload" /\ ~outcome[r].isError

\* C8: the returned list keeps the order of the search rows: if row i
\* precedes row j and both survive hydration, result i precedes result j.
C8_OrderOfSearchRowsKept ==
    \A r \in Req :
        Hydrated(r) =>
            \A i, j \in 1..Len(outcome[r].list) :
                i < j => RowIndex(loc[r].rows, outcome[r].list[i].id)
                            < RowIndex(loc[r].rows, outcome[r].list[j].id)

\* C8 witness: a list of at least two results around a dropped candidate
C8_Witness ==
    \E r \in Req :
        /\ Hydrated(r)
        /\ Len(outcome[r].list) >= 2
        /\ loc[r].reads[1] = "ok"
        /\ loc[r].reads[2] = "failed"
        /\ loc[r].reads[3] = "ok"

\* C9: if the search returned n candidates and k of their hydration reads
\* failed, findSimilar succeeds with exactly the n - k candidates whose reads
\* succeeded, each with the id and the score of its search row.
C9_FailedReadsAreDropped ==
    \A r \in Req :
        Hydrated(r) =>
            /\ outcome[r].how = "payload"
            /\ ~outcome[r].isError
            /\ Len(outcome[r].list) = Cardinality(OkReads(r))
            /\ \A i \in OkReads(r) :
                   \E j \in 1..Len(outcome[r].list) :
                       /\ outcome[r].list[j].id = loc[r].rows[i].id
                       /\ outcome[r].list[j].score = loc[r].rows[i].score

\* C10: if the search timeout fires, findSimilar ends with a Timeout failure,
\* returns no result list, and no hydration read is issued for the call.
C10_SearchTimeoutFailsWithoutList ==
    \A r \in Req :
        loc[r].search = "timeout"
            => /\ "hydrate" \notin loc[r].issued
               /\ loc[r].reads = <<>>
               /\ Finished(r) => /\ outcome[r].how = "thrown"
                                 /\ ErrorClass(outcome[r].text) = "Timeout"
                                 /\ outcome[r].list = <<>>

\* C11: for an entity that exists but has no embedding, findSimilar fails
\* with a MissingEmbedding outcome, which is not the NotFound outcome, and
\* issues no similarity search and no hydration read.
C11_MissingEmbeddingFailsBeforeSearch ==
    \A r \in Req :
        /\ req[r].tool = "find"
        /\ loc[r].getRes = "found"
        /\ ~loc[r].doc.hasEmb
        => /\ Finished(r)
           /\ outcome[r].isError
           /\ ErrorClass(outcome[r].text) = "MissingEmbedding"
           /\ ErrorClass(outcome[r].text) # ErrorClass(TxtNotFoundThrown)
           /\ "search" \notin loc[r].issued
           /\ "hydrate" \notin loc[r].issued

\* C11 witness: a find call on the entity without embedding has ended
C11_Witness ==
    \E r \in Req :
        /\ Finished(r)
        /\ req[r].tool = "find"
        /\ req[r].arg = N3
        /\ loc[r].getRes = "found"
        /\ outcome[r].text = TxtNoEmbedding

\* C12: for a non-empty name whose key is not in the datastore, the point-read
\* of the resolver ends in the NotFound value, not in a throw: the fetch tool
\* answers with the structured not-found error payload.
C12_MissingKeyIsNotFoundPayload ==
    \A r \in Req :
        /\ Finished(r)
        /\ req[r].tool = "fetch"
        /\ req[r].arg \notin {Absent, <<>>}
        /\ ~HasDoc(store, DocId(server, req[r].arg))
        /\ "get" \in loc[r].issued
        => /\ outcome[r].how = "payload"
           /\ outcome[r].isError
           /\ outcome[r].text = TxtNotFound
           /\ loc[r].doc = NoDoc

\* C12 witness: the datastore has reported that the key of "b" does not exist
C12_Witness ==
    \E r \in Req :
        /\ Finished(r)
        /\ req[r].tool = "fetch"
        /\ req[r].arg = <<"b">>
        /\ loc[r].getRes = "notfound"
        /\ outcome[r].text = TxtNotFound

\* C13: once the resolve step of a find call has completed, the call
\* eventually completes, even if the datastore answers neither the search
\* nor the hydration reads: the timers cut them off.
C13_FindTerminatesAfterResolve ==
    \A r \in Req :
        (req[r].tool = "find" /\ loc[r].getRes # "none") ~> Finished(r)

\* C13 witness: a call has ended although no hydration read was answered
C13_Witness ==
    \E r \in Req :
        /\ Finished(r)
        /\ Len(loc[r].reads) > 0
        /\ \A i \in 1..Len(loc[r].reads) : loc[r].reads[i] = "failed"
        /\ outcome[r].text = "list"

\* The record stored under key id, if any
RecordAt(st, id) == IF HasDoc(st, id) THEN GetDoc(st, id) ELSE NoDoc

\* The point-read of the resolver of call r is answered in this step
ReadAnswered(r) ==
    /\ pc[r] = "get"
    /\ pc'[r] = "done"
    /\ loc'[r].getRes \in {"found", "notfound"}

\* C14: a name and a spelling of it that differs in letter case only get the
\* same document key, in both servers, and canonicalizing a canonical name
\* gives it back (capitalizeFirstLetter of a planet key is that key, the
\* monster key of the lower-cased name is the key of the name). So a read
\* that the datastore answers returns, for either spelling, the record that
\* is stored at that moment under the key of the name and of the spelling.
C14_CaseInsensitiveAndIdempotent ==
    [][ /\ DocId(server, canon.name) = DocId(server, canon.other)
        /\ server = "starwars" =>
               capitalizeFirstLetter(DocId(server, canon.other))
                   = DocId(server, canon.name)
        /\ server = "monsters" =>
               MonsterDocId(toLowerCase(canon.other)) = DocId(server, canon.name)
        /\ \A r \in Req :
               ReadAnswered(r) =>
                   /\ loc'[r].doc = RecordAt(store, DocId(server, canon.name))
                   /\ loc'[r].doc = RecordAt(store, DocId(server, canon.other)) ]_vars

\* C14 witness: the two spellings, neither of them the key, have been resolved
\* to the same planet
C14_Witness ==
    /\ server = "starwars"
    /\ Finished(1) /\ Finished(2)
    /\ req[1].arg = canon.name /\ req[2].arg = canon.other
    /\ canon.name # canon.other
    /\ canon.name # DocId(server, canon.name)
    /\ canon.other # DocId(server, canon.name)
    /\ loc[1].getRes = "found" /\ loc[2].getRes = "found"
    /\ loc[1].doc # NoDoc
    /\ loc[2].doc = loc[1].doc

\* C17: the key getMonster looks up for the name of a monster is the key the
\* loader has stored that monster under.
C17_LoadedMonsterIsFetchedByName ==
    \A r \in Req :
        ( /\ server = "monsters"
          /\ store # {}
          /\ pc[r] # "idle"
          /\ req[r].arg = canon.name )
            => /\ DocId(server, req[r].arg) = LoaderDocId(canon.name)
               /\ HasDoc(store, DocId(server, req[r].arg))

\* C15: in the starwars server, when a find call that has used the shared
\* connection ends, on whatever exit path, and no other call has been made,
\* every connection is closed and the handle `cluster` is null.
C15_FindLeavesConnectionClosed ==
    [][ \A r \in Req :
            ( /\ server = "starwars"
              /\ req[r].tool = "find"
              /\ pc[r] # "done" /\ pc'[r] = "done"
              /\ loc'[r].issued # {}
              /\ \A q \in Req \ {r} : pc[q] = "idle" )
                => /\ cluster' = 0
                   /\ \A k \in 1..Len(conns') : conns'[k] = "closed" ]_vars

\* C16: no connection is leaked: every connection couchbase.connect has
\* opened is the one the handle `cluster` refers to, or has been closed.
C16_NoConnectionLeaked ==
    \A k \in 1..Len(conns) : conns[k] = "open" => cluster = k

====
